---- MODULE Spec2Model ----
(***************************************************************************)
(* Model of qutebrowser's web history store                                *)
(* (qutebrowser/browser/history.py): the Entry line codec and the          *)
(* WebHistory object with its asynchronous initial read.                   *)
(*                                                                         *)
(* Text is modelled as a sequence of symbols.  A symbol is one character,  *)
(* except that the whole text of a URL is one symbol: nothing in           *)
(* history.py looks inside a URL string.                                   *)
(***************************************************************************)
EXTENDS Integers, Sequences, FiniteSets, TLC

\* ------------------------------------------------------------------ bounds
\* longest history file present at start-up, in lines, when only the load
\* is explored
MaxLog == 3
\* longest history file present at start-up, in lines, when all operations
\* are explored
MaxFile == 2
\* number of add_url calls in one run
MaxAdds == 2
\* number of clears that proceed in one run
MaxClears == 1
\* number of async_read generators the application creates in one run
MaxReads == 2
\* number of unanswered confirmation prompts
MaxPrompts == 1
\* number of add_url calls in one run of the load
LoadAdds == 1
\* number of calls in one run in which the line parser fails
MaxFailures == 2

\* ------------------------------------------------------------- characters
\* atime is a float in the code; the model counts it in ticks of
\* 1/TicksPerSec seconds, so that int() really truncates.
TicksPerSec == 2

Digits == <<"0", "1", "2", "3", "4", "5", "6", "7", "8", "9">>
DigitSet == {Digits[i] : i \in 1..10}
Space == " "
Nul == "NUL"

IsSpace(c) == c = Space

\* ------------------------------------------------------------------- QUrl
\* A QUrl is identified with the text it was built from.  Each of the
\* symbols below stands for the whole text of one URL: UrlPw is UrlA with
\* a user and a password, UrlData uses the data: scheme, UrlBad does not
\* parse, and UrlEmpty is QUrl().
UrlA == <<"http://a/">>
UrlB == <<"http://b/">>
UrlPw == <<"http://u:pw@a/">>
UrlPwStripped == <<"http://u@a/">>
UrlData == <<"data:x">>
UrlBad == <<"http://:bad">>
UrlEmpty == <<>>

\* QUrl.isEmpty()
isEmpty(url) == url = UrlEmpty

\* QUrl.isValid(): an empty URL is invalid, and so is one whose text does
\* not parse
isValid(url) == ~isEmpty(url) /\ \A i \in 1..Len(url) : <<url[i]>> /= UrlBad

\* QUrl.scheme()
scheme(url) == IF isValid(url) /\ <<url[1]>> = UrlData THEN "data"
               ELSE IF isValid(url) /\ <<url[1]>> \in {UrlA, UrlB, UrlPw, UrlPwStripped}
                    THEN "http"
               ELSE ""

\* QUrl.matches(other, QUrl.UrlFormattingOption(0))
matches(url, other) == url = other

\* Entry.url_str: QUrl.toString(FullyEncoded | RemovePassword)
url_str(url) == [i \in 1..Len(url) |->
                    IF <<url[i]>> = UrlPw THEN UrlPwStripped[1] ELSE url[i]]

\* ---------------------------------------------------------- str and float
RECURSIVE IntToStr(_)
\* str(n) for a non-negative int
IntToStr(n) == IF n < 10 THEN <<Digits[n + 1]>>
               ELSE IntToStr(n \div 10) \o <<Digits[(n % 10) + 1]>>

DigitVal(c) == CHOOSE d \in 0..9 : Digits[d + 1] = c

RECURSIVE StrToInt(_)
\* the value of a non-empty string of decimal digits
StrToInt(s) == IF Len(s) = 1 THEN DigitVal(s[1])
               ELSE 10 * StrToInt(SubSeq(s, 1, Len(s) - 1)) + DigitVal(s[Len(s)])

\* float(s) succeeds: over the characters of the model, exactly the
\* non-empty digit strings are float literals
FloatOk(s) == Len(s) > 0 /\ \A i \in 1..Len(s) : s[i] \in DigitSet

\* float(s) in ticks
Float(s) == StrToInt(s) * TicksPerSec

\* ------------------------------------------------------- string operations
RECURSIVE rstrip(_)
\* str.rstrip(): drop trailing whitespace
rstrip(s) == IF Len(s) > 0 /\ IsSpace(s[Len(s)])
             THEN rstrip(SubSeq(s, 1, Len(s) - 1))
             ELSE s

RECURSIVE SkipSpace(_, _)
\* first position >= i of s that holds no whitespace (Len(s)+1 if none)
SkipSpace(s, i) == IF i <= Len(s) /\ IsSpace(s[i]) THEN SkipSpace(s, i + 1) ELSE i

RECURSIVE SkipWord(_, _)
\* first position >= i of s that holds whitespace (Len(s)+1 if none)
SkipWord(s, i) == IF i <= Len(s) /\ ~IsSpace(s[i]) THEN SkipWord(s, i + 1) ELSE i

RECURSIVE SplitFrom(_, _, _)
\* str.split(maxsplit=n) applied to s from position i on
SplitFrom(s, i, n) ==
    LET j == SkipSpace(s, i) IN
    IF j > Len(s) THEN <<>>
    ELSE IF n = 0 THEN <<SubSeq(s, j, Len(s))>>
    ELSE LET k == SkipWord(s, j) IN
         <<SubSeq(s, j, k - 1)>> \o SplitFrom(s, k, n - 1)

\* line.split(maxsplit=2)
split(s) == SplitFrom(s, 1, 2)

RECURSIVE lstripNul(_)
\* atime.lstrip('\0')
lstripNul(s) == IF Len(s) > 0 /\ s[1] = Nul THEN lstripNul(Tail(s)) ELSE s

RECURSIVE SplitDash(_)
\* atime.split('-')
SplitDash(s) ==
    IF \A i \in 1..Len(s) : s[i] /= "-" THEN <<s>>
    ELSE LET k == CHOOSE i \in 1..Len(s) :
                      s[i] = "-" /\ \A j \in 1..(i - 1) : s[j] /= "-"
         IN <<SubSeq(s, 1, k - 1)>> \o SplitDash(SubSeq(s, k + 1, Len(s)))

\* ------------------------------------------------------------------ Entry
\* Entry.__init__ (the url is valid, or ensure_valid raises)
Entry(atime, url, title, redirect) ==
    [atime |-> atime, url |-> url, title |-> title, redirect |-> redirect]

\* EntryStr, had __str__ left the redirect flag out
EntryStr_unflagged(e) ==
    IntToStr(e.atime \div TicksPerSec) \o <<Space>> \o url_str(e.url)
        \o (IF e.title /= <<>> THEN <<Space>> \o e.title ELSE <<>>)

\* Entry.__str__
EntryStr(e) ==
    LET atime == IntToStr(e.atime \div TicksPerSec)
                     \o (IF e.redirect THEN <<"-", "r">> ELSE <<>>)
    IN atime \o <<Space>> \o url_str(e.url)
             \o (IF e.title /= <<>> THEN <<Space>> \o e.title ELSE <<>>)

\* QUrl(url) for the text of a field
QUrl(field) == field

\* the atime and flags Entry.from_str extracts from the first field,
\* <<>> when the unpacking of atime.split('-') raises ValueError
AtimeFlags(field) ==
    LET atime == lstripNul(field)
        parts == SplitDash(atime)
    IN IF Len(parts) = 1 THEN <<atime, <<>>>>
       ELSE IF Len(parts) = 2 THEN parts
       ELSE <<>>

\* FromStrFails, had from_str not checked the flags
FromStrFails_flags(line) ==
    LET data == split(line) IN
    \/ Len(data) \notin {2, 3}
    \/ /\ Len(data) \in {2, 3}
       /\ \/ ~isValid(QUrl(data[2]))
          \/ AtimeFlags(data[1]) = <<>>
          \/ /\ AtimeFlags(data[1]) /= <<>>
             /\ ~FloatOk(AtimeFlags(data[1])[1])

\* Entry.from_str raises ValueError on this line
FromStrFails(line) ==
    LET data == split(line) IN
    \/ Len(data) \notin {2, 3}
    \/ /\ Len(data) \in {2, 3}
       /\ \/ ~isValid(QUrl(data[2]))
          \/ AtimeFlags(data[1]) = <<>>
          \/ /\ AtimeFlags(data[1]) /= <<>>
             /\ \/ \E i \in 1..Len(AtimeFlags(data[1])[2]) :
                       AtimeFlags(data[1])[2][i] /= "r"
                \/ ~FloatOk(AtimeFlags(data[1])[1])

\* Entry.from_str on a line it accepts
from_str(line) ==
    LET data == split(line)
        title == IF Len(data) = 3 THEN data[3] ELSE <<>>
        af == AtimeFlags(data[1])
    IN Entry(Float(af[1]), QUrl(data[2]), title,
             \E i \in 1..Len(af[2]) : af[2][i] = "r")

\* ------------------------------------------------------------------ state
VARIABLES
    lineparser,             \* the lines of the history file on disk
    index,                  \* the rows of the History sql table, by url
    initial_read_started,   \* WebHistory._initial_read_started
    initial_read_done,      \* WebHistory._initial_read_done
    temp_history,           \* WebHistory._temp_history
    new_history,            \* WebHistory._new_history
    saved_count,            \* WebHistory._saved_count
    pc,                     \* where the async_read generator stands
    line,                   \* the line the suspended generator holds
    unread,                 \* the lines the open file object still delivers
    prompts,                \* confirmation prompts not yet answered
    signals,                \* what each notification's listeners saw last
    emitted,                \* how often each notification, warning and error came up
    calls,                  \* how often each operation was called and ran
    accepted,               \* entries add_url buffered since the last clear
    written,                \* lines save appended since the last clear
    codec                   \* an Entry on its way through str and from_str

vars == <<lineparser, index, initial_read_started, initial_read_done,
          temp_history, new_history, saved_count, pc, line, unread, prompts,
          signals, emitted, calls, accepted, written, codec>>

\* the fields of the WebHistory object and the file and table it owns
store == <<lineparser, index, initial_read_started, initial_read_done,
           temp_history, new_history, saved_count>>

\* ----------------------------------------------------------------- inputs
\* lines a history file of an earlier session may hold
LineA1 == <<"1", Space>> \o UrlA \o <<Space, "t">>
LineA2 == <<"2", Space>> \o UrlA
LineBr == <<Nul, "3", "-", "r", Space>> \o UrlB \o <<Space, "t", Space>>
LineFields == <<"1">>
LineBadUrl == <<"1", Space>> \o UrlBad \o <<Space, "t">>
LineBadFlags == <<"1", "-", "x", Space>> \o UrlB
LineBadAtime == <<"x", Space>> \o UrlB
LineBlank == <<Space>>

LogLines == {LineA1, LineA2, LineBr, LineFields, LineBadUrl, LineBadFlags,
             LineBadAtime, LineBlank}

\* the sequences over S of length at most n
BoundedSeq(S, n) == UNION {[1..k -> S] : k \in 0..n}

\* the URLs and titles of the calls explored
AddUrls == {UrlA, UrlPw, UrlData, UrlBad, UrlEmpty}
Titles == {<<>>, <<"t">>}

\* the arguments add_url is called with: url, title, redirect
AddArgs == {<<UrlA, <<"t">>, FALSE>>, <<UrlPw, <<>>, TRUE>>,
            <<UrlData, <<>>, FALSE>>, <<UrlBad, <<"t">>, FALSE>>,
            <<UrlEmpty, <<>>, FALSE>>}

\* the arguments add_from_tab is called with: url, requested_url, title
TabArgs == {<<UrlA, UrlA, <<"t">>>>, <<UrlA, UrlPw, <<"t">>>>,
            <<UrlPw, UrlA, <<>>>>, <<UrlA, UrlEmpty, <<"t">>>>,
            <<UrlEmpty, UrlA, <<"t">>>>, <<UrlData, UrlA, <<"t">>>>,
            <<UrlA, UrlData, <<>>>>, <<UrlBad, UrlA, <<"t">>>>}

\* time.time() at the n-th add_url call of the run, in ticks: later than
\* every atime of the earlier session's file
StartTime == 9
Time(n) == StartTime + n

\* ------------------------------------------------------- the sql table
\* the row _add_entry inserts for an entry
Row(entry) == [url |-> url_str(entry.url), title |-> entry.title,
               atime |-> entry.atime, redirect |-> entry.redirect]

\* SqlTable.insert(..., replace=False) where a stored row keeps its place
insert_ignore(table, row) ==
    [u \in DOMAIN table \cup {row.url} |-> IF u \in DOMAIN table THEN table[u] ELSE row]

\* SqlTable.insert(..., replace=True) with primary key url
insert(table, row) ==
    [u \in DOMAIN table \cup {row.url} |-> IF u = row.url THEN row ELSE table[u]]

\* _add_entry, had it not passed replace=True
add_entry_ignore(table, entry) == insert_ignore(table, Row(entry))

\* WebHistory._add_entry
add_entry(table, entry) == insert(table, Row(entry))

\* SqlTable.delete_all
delete_all == [u \in {} |-> u]

RECURSIVE AddAll(_, _)
\* _add_entry for each entry of a list, in list order
AddAll(table, entries) ==
    IF entries = <<>> THEN table
    ELSE AddAll(add_entry(table, Head(entries)), Tail(entries))

\* ------------------------------------------------------- the line parser
\* how many lines AppendLineParser.get_recent returns at most
RecentLines == 2

\* AppendLineParser.get_recent: the last lines of the file
lineparser_get_recent(file) ==
    SubSeq(file, IF Len(file) > RecentLines THEN Len(file) - RecentLines + 1 ELSE 1,
           Len(file))

\* what an open file object may still deliver of its unread lines once the
\* file is truncated under it: the lines it had buffered, if any
AfterTruncate(lines) == {SubSeq(lines, 1, k) : k \in 0..Len(lines)}

\* ------------------------------------------------------------ WebHistory
\* what the listeners of a notification find in the store when it is
\* delivered to them
Snapshot(file, table, temp, new, saved) ==
    [lineparser |-> file, index |-> table, temp_history |-> temp,
     new_history |-> new, saved_count |-> saved]

\* no delivery yet
NoSnapshot == <<>>

\* the lines of the files the interleavings of all operations are explored
\* with
StoreLines == {LineA1, LineBr}

\* WebHistory.__init__
InitRest ==
    /\ index = delete_all
    /\ initial_read_started = FALSE
    /\ initial_read_done = FALSE
    /\ temp_history = <<>>
    /\ new_history = <<>>
    /\ saved_count = 0
    /\ pc = "created"
    /\ line = <<>>
    /\ unread = <<>>
    /\ prompts = 0
    /\ signals = [async_read_done |-> NoSnapshot, add_saveable |-> NoSnapshot,
                  cleared |-> NoSnapshot]
    /\ emitted = [async_read_done |-> 0, add_saveable |-> 0, cleared |-> 0,
                  init_warning |-> 0, misc_warning |-> 0, save_error |-> 0,
                  clear_error |-> 0]
    /\ calls = [async_read |-> 0, add_url |-> 0, clear |-> 0]
    /\ accepted = <<>>
    /\ written = <<>>

\* Drained, had the loop taken the entries off the end of the buffer
Drained_reversed(temp) == [i \in 1..Len(temp) |-> temp[Len(temp) + 1 - i]]

\* the entries the loop at the end of async_read moves out of the buffer,
\* in the order it moves them
Drained(temp) == temp

\* ReadDone, had async_read not set _initial_read_done
ReadDone_unmarked(table, warned) ==
    /\ initial_read_done' = initial_read_done
    /\ signals' = [signals EXCEPT
                      !.async_read_done = Snapshot(lineparser, table, temp_history,
                                                   new_history, saved_count),
                      !.add_saveable = Snapshot(lineparser, table, temp_history,
                                                new_history, saved_count)]
    /\ emitted' = [emitted EXCEPT !.async_read_done = @ + 1, !.add_saveable = @ + 1,
                                  !.init_warning = warned]
    /\ index' = AddAll(table, Drained(temp_history))
    /\ new_history' = new_history \o Drained(temp_history)
    /\ temp_history' = <<>>
    /\ pc' = "finished"
    /\ line' = <<>>
    /\ unread' = <<>>

\* ReadDone, had the loop over the buffer not inserted into the table
ReadDone_uninserted(table, warned) ==
    /\ initial_read_done' = TRUE
    /\ signals' = [signals EXCEPT
                      !.async_read_done = Snapshot(lineparser, table, temp_history,
                                                   new_history, saved_count),
                      !.add_saveable = Snapshot(lineparser, table, temp_history,
                                                new_history, saved_count)]
    /\ emitted' = [emitted EXCEPT !.async_read_done = @ + 1, !.add_saveable = @ + 1,
                                  !.init_warning = warned]
    /\ index' = table
    /\ new_history' = new_history \o Drained(temp_history)
    /\ temp_history' = <<>>
    /\ pc' = "finished"
    /\ line' = <<>>
    /\ unread' = <<>>

\* async_read from the end of its for loop on: the table holds `table`
\* and `warned` warnings were logged
ReadDone(table, warned) ==
    /\ initial_read_done' = TRUE
    /\ signals' = [signals EXCEPT
                      !.async_read_done = Snapshot(lineparser, table, temp_history,
                                                   new_history, saved_count),
                      !.add_saveable = Snapshot(lineparser, table, temp_history,
                                                new_history, saved_count)]
    /\ emitted' = [emitted EXCEPT !.async_read_done = @ + 1, !.add_saveable = @ + 1,
                                  !.init_warning = warned]
    /\ index' = AddAll(table, Drained(temp_history))
    /\ new_history' = new_history \o Drained(temp_history)
    /\ temp_history' = <<>>
    /\ pc' = "finished"
    /\ line' = <<>>
    /\ unread' = <<>>

\* the for statement of async_read asks the file for its next line: the
\* generator suspends at the yield holding that line, or leaves the loop
NextLine(table, rest, warned) ==
    IF rest = <<>>
    THEN ReadDone(table, warned)
    ELSE /\ line' = Head(rest)
         /\ unread' = Tail(rest)
         /\ pc' = "yield"
         /\ index' = table
         /\ emitted' = [emitted EXCEPT !.init_warning = warned]
         /\ UNCHANGED <<initial_read_done, signals, temp_history, new_history>>

\* the body of the for loop after the yield applied to the line held:
\* the table afterwards
LoopBody(table, held) ==
    IF rstrip(held) = <<>> \/ FromStrFails(rstrip(held)) THEN table
    ELSE add_entry(table, from_str(rstrip(held)))

\* the body of the for loop logs a warning for the line held
LoopWarns(held) == rstrip(held) /= <<>> /\ FromStrFails(rstrip(held))

\* async_read is called and run up to its first yield (or to its end)
async_read ==
    /\ calls' = [calls EXCEPT !.async_read = @ + 1]
    /\ IF initial_read_started
       THEN UNCHANGED <<index, initial_read_started, initial_read_done,
                        temp_history, new_history, pc, line, unread, signals,
                        emitted>>
       ELSE /\ initial_read_started' = TRUE
            /\ NextLine(index, lineparser, emitted.init_warning)
    /\ UNCHANGED <<codec, lineparser, saved_count, prompts, accepted, written>>

\* the suspended generator is resumed and runs to its next yield (or to
\* its end)
async_read_resume ==
    /\ pc = "yield"
    /\ NextLine(LoopBody(index, line), unread,
                IF LoopWarns(line) THEN emitted.init_warning + 1 ELSE emitted.init_warning)
    /\ UNCHANGED <<codec, lineparser, initial_read_started, saved_count, prompts, calls,
                   accepted, written>>

\* get_recent, had it also listed the entries still in the buffer
get_recent_buffered ==
    lineparser_get_recent(lineparser)
        \o [i \in 1..Len(new_history) |-> EntryStr(new_history[i])]
        \o [i \in 1..Len(temp_history) |-> EntryStr(temp_history[i])]

\* WebHistory.get_recent
get_recent ==
    lineparser_get_recent(lineparser)
        \o [i \in 1..Len(new_history) |-> EntryStr(new_history[i])]

\* NewData, had save not skipped the entries already written
NewData_all(new, saved) == [i \in 1..Len(new) |-> EntryStr(new[i])]

\* the lines save hands to the line parser as new_data
NewData(new, saved) == [i \in 1..(Len(new) - saved) |-> EntryStr(new[saved + i])]

\* SavedAfterSave, had save not advanced the count
SavedAfterSave_stale(new, saved) == saved

\* SavedAfterSave, had save added the length of the list to the count
SavedAfterSave_added(new, saved) == saved + Len(new)

\* _saved_count as save leaves it
SavedAfterSave(new, saved) == Len(new)

\* WebHistory.save
save ==
    /\ lineparser' = lineparser \o NewData(new_history, saved_count)
    /\ saved_count' = SavedAfterSave(new_history, saved_count)
    /\ written' = written \o NewData(new_history, saved_count)
    /\ UNCHANGED <<codec, index, initial_read_started, initial_read_done, temp_history,
                   new_history, pc, line, unread, prompts, signals, emitted,
                   calls, accepted>>

\* save_raises, had save advanced _saved_count before calling the line
\* parser
save_raises_counted ==
    /\ saved_count' = Len(new_history)
    /\ emitted' = [emitted EXCEPT !.save_error = @ + 1]
    /\ UNCHANGED <<codec, lineparser, index, initial_read_started, initial_read_done,
                   temp_history, new_history, pc, line, unread, prompts,
                   signals, calls, accepted, written>>

\* WebHistory.save when the line parser's save raises OSError: the file is
\* left as it was, the exception passes through save to its caller and the
\* assignment after the call is not reached
save_raises ==
    /\ emitted' = [emitted EXCEPT !.save_error = @ + 1]
    /\ UNCHANGED <<codec, lineparser, index, initial_read_started, initial_read_done,
                   temp_history, new_history, saved_count, pc, line, unread,
                   prompts, signals, calls, accepted, written>>

\* _do_clear, had it left _saved_count alone
do_clear_keeps_count ==
    /\ calls' = [calls EXCEPT !.clear = @ + 1]
    /\ lineparser' = <<>>
    /\ unread' \in AfterTruncate(unread)
    /\ index' = delete_all
    /\ temp_history' = <<>>
    /\ new_history' = <<>>
    /\ signals' = [signals EXCEPT
                      !.cleared = Snapshot(<<>>, delete_all, <<>>, <<>>, saved_count)]
    /\ emitted' = [emitted EXCEPT !.cleared = @ + 1]
    /\ accepted' = <<>>
    /\ written' = <<>>
    /\ UNCHANGED <<codec, initial_read_started, initial_read_done, pc, line, saved_count>>

\* _do_clear, had it also reset the two flags of the initial read
do_clear_restarts ==
    /\ calls' = [calls EXCEPT !.clear = @ + 1]
    /\ lineparser' = <<>>
    /\ unread' = <<>>
    /\ index' = delete_all
    /\ temp_history' = <<>>
    /\ new_history' = <<>>
    /\ saved_count' = 0
    /\ signals' = [signals EXCEPT
                      !.cleared = Snapshot(<<>>, delete_all, <<>>, <<>>, 0)]
    /\ emitted' = [emitted EXCEPT !.cleared = @ + 1]
    /\ accepted' = <<>>
    /\ written' = <<>>
    /\ initial_read_started' = FALSE
    /\ initial_read_done' = FALSE
    /\ pc' = "created"
    /\ line' = <<>>
    /\ UNCHANGED codec

\* _do_clear, had it emitted cleared before resetting anything
do_clear_emits_first ==
    /\ calls' = [calls EXCEPT !.clear = @ + 1]
    /\ lineparser' = <<>>
    /\ unread' \in AfterTruncate(unread)
    /\ index' = delete_all
    /\ temp_history' = <<>>
    /\ new_history' = <<>>
    /\ saved_count' = 0
    /\ signals' = [signals EXCEPT
                      !.cleared = Snapshot(lineparser, index, temp_history,
                                           new_history, saved_count)]
    /\ emitted' = [emitted EXCEPT !.cleared = @ + 1]
    /\ accepted' = <<>>
    /\ written' = <<>>
    /\ UNCHANGED <<codec, initial_read_started, initial_read_done, pc, line>>

\* _do_clear, had it also reset _initial_read_done
do_clear_unfinished ==
    /\ calls' = [calls EXCEPT !.clear = @ + 1]
    /\ lineparser' = <<>>
    /\ unread' \in AfterTruncate(unread)
    /\ index' = delete_all
    /\ temp_history' = <<>>
    /\ new_history' = <<>>
    /\ saved_count' = 0
    /\ signals' = [signals EXCEPT
                      !.cleared = Snapshot(<<>>, delete_all, <<>>, <<>>, 0)]
    /\ emitted' = [emitted EXCEPT !.cleared = @ + 1]
    /\ accepted' = <<>>
    /\ written' = <<>>
    /\ initial_read_done' = FALSE
    /\ UNCHANGED <<codec, initial_read_started, pc, line>>

\* WebHistory._do_clear
do_clear ==
    /\ calls' = [calls EXCEPT !.clear = @ + 1]
    /\ lineparser' = <<>>
    /\ unread' \in AfterTruncate(unread)
    /\ index' = delete_all
    /\ temp_history' = <<>>
    /\ new_history' = <<>>
    /\ saved_count' = 0
    /\ signals' = [signals EXCEPT
                      !.cleared = Snapshot(<<>>, delete_all, <<>>, <<>>, 0)]
    /\ emitted' = [emitted EXCEPT !.cleared = @ + 1]
    /\ accepted' = <<>>
    /\ written' = <<>>
    /\ UNCHANGED <<codec, initial_read_started, initial_read_done, pc, line>>

\* clear, had it not asked before clearing
clear_unasked(force) == do_clear /\ UNCHANGED prompts

\* WebHistory._do_clear when the line parser's clear raises OSError: the
\* file is left as it was, the exception passes through _do_clear to its
\* caller and no statement after the call is reached
do_clear_raises ==
    /\ emitted' = [emitted EXCEPT !.clear_error = @ + 1]
    /\ UNCHANGED <<codec, store, pc, line, unread, signals, calls, accepted, written>>

\* WebHistory.clear
clear(force) ==
    IF force
    THEN do_clear /\ UNCHANGED prompts
    ELSE /\ prompts' = prompts + 1
         /\ UNCHANGED <<codec, store, pc, line, unread, signals, emitted, calls,
                        accepted, written>>

\* the user affirms a prompt of message.confirm_async
confirm_yes ==
    /\ prompts > 0
    /\ prompts' = prompts - 1
    /\ do_clear

\* the user dismisses a prompt of message.confirm_async
confirm_no ==
    /\ prompts > 0
    /\ prompts' = prompts - 1
    /\ UNCHANGED <<codec, store, pc, line, unread, signals, emitted, calls, accepted,
                   written>>

\* WebHistory.clear(force=True) when the line parser's clear raises
clear_raises == do_clear_raises /\ UNCHANGED prompts

\* the user affirms a prompt and the line parser's clear raises
confirm_yes_raises ==
    /\ prompts > 0
    /\ prompts' = prompts - 1
    /\ do_clear_raises

\* the part of the state add_url works on
Current ==
    [index |-> index, temp_history |-> temp_history, new_history |-> new_history,
     accepted |-> accepted, add_url |-> calls.add_url,
     misc_warning |-> emitted.misc_warning]

\* Store, had add_url not looked at _initial_read_done
Store_always(s, entry, done) ==
    [s EXCEPT !.index = add_entry(@, entry),
              !.new_history = Append(@, entry),
              !.accepted = IF done THEN @ ELSE Append(@, entry)]

\* add_url stores the entry: in the table and the session list once the
\* initial read is done, in the buffer before
Store(s, entry, done) ==
    IF done
    THEN [s EXCEPT !.index = add_entry(@, entry),
                   !.new_history = Append(@, entry)]
    ELSE [s EXCEPT !.temp_history = Append(@, entry),
                   !.accepted = Append(@, entry)]

\* AddUrl, had add_url not checked the URL
AddUrl_unchecked(s, url, title, redirect) ==
    [Store(s, Entry(Time(s.add_url), url, title, redirect), initial_read_done)
         EXCEPT !.add_url = @ + 1]

\* WebHistory.add_url(url, title, redirect=redirect) applied to s
AddUrl(s, url, title, redirect) ==
    IF ~isValid(url)
    THEN [s EXCEPT !.add_url = @ + 1, !.misc_warning = @ + 1]
    ELSE [Store(s, Entry(Time(s.add_url), url, title, redirect), initial_read_done)
              EXCEPT !.add_url = @ + 1]

\* AddFromTab, had it not marked the requested URL as a redirect
AddFromTab_unmarked(s, url, requested_url, title) ==
    IF scheme(url) = "data" \/ scheme(requested_url) = "data" THEN s
    ELSE IF isEmpty(url) THEN s
    ELSE AddUrl(IF isValid(requested_url) /\ ~matches(requested_url, url)
                THEN AddUrl(s, requested_url, title, FALSE)
                ELSE s,
                url, title, FALSE)

\* AddFromTab, had it not looked at the schemes
AddFromTab_anyscheme(s, url, requested_url, title) ==
    IF isEmpty(url) THEN s
    ELSE AddUrl(IF isValid(requested_url) /\ ~matches(requested_url, url)
                THEN AddUrl(s, requested_url, title, TRUE)
                ELSE s,
                url, title, FALSE)

\* WebHistory.add_from_tab(url, requested_url, title) applied to s
AddFromTab(s, url, requested_url, title) ==
    IF scheme(url) = "data" \/ scheme(requested_url) = "data" THEN s
    ELSE IF isEmpty(url) THEN s
    ELSE AddUrl(IF isValid(requested_url) /\ ~matches(requested_url, url)
                THEN AddUrl(s, requested_url, title, TRUE)
                ELSE s,
                url, title, FALSE)

\* the state becomes s
Becomes(s) ==
    /\ index' = s.index
    /\ temp_history' = s.temp_history
    /\ new_history' = s.new_history
    /\ accepted' = s.accepted
    /\ calls' = [calls EXCEPT !.add_url = s.add_url]
    /\ emitted' = [emitted EXCEPT !.misc_warning = s.misc_warning]
    /\ UNCHANGED <<codec, lineparser, initial_read_started, initial_read_done,
                   saved_count, pc, line, unread, prompts, signals, written>>

\* add_url is called
add_url(url, title, redirect) ==
    /\ Becomes(AddUrl(Current, url, title, redirect))

\* add_from_tab is called
add_from_tab(url, requested_url, title) ==
    /\ Becomes(AddFromTab(Current, url, requested_url, title))

\* ------------------------------------------------------ the Entry codec
\* no Entry
NoEntry == <<>>

\* no Entry is on its way through str and from_str
NoCodec == [pc |-> "idle", entry |-> NoEntry, text |-> <<>>, parsed |-> NoEntry]

\* the titles, URLs and access times (in seconds) of the entries taken
\* through str and from_str
CodecTitles == {<<>>, <<"t">>, <<"t", Space, "t">>, <<"t", Space>>,
                <<Space, "t">>, <<Space>>}
CodecUrls == {UrlA, UrlB, UrlPw}
CodecSeconds == {0, 1, 12}

\* the entries taken through str and from_str: valid URL, whole seconds
CodecEntries ==
    {Entry(n * TicksPerSec, url, title, redirect) :
        n \in CodecSeconds, url \in CodecUrls, title \in CodecTitles,
        redirect \in BOOLEAN}

\* str(entry) is taken of the entry
entry_str ==
    /\ codec.pc = "entry"
    /\ codec' = [codec EXCEPT !.text = EntryStr(codec.entry), !.pc = "text"]
    /\ UNCHANGED <<store, pc, line, unread, prompts, signals, emitted, calls,
                   accepted, written>>

\* Entry.from_str is called with the text: it returns an Entry or raises
\* ValueError
entry_from_str ==
    /\ codec.pc = "text"
    /\ codec' = IF FromStrFails(codec.text)
                THEN [codec EXCEPT !.pc = "raised"]
                ELSE [codec EXCEPT !.parsed = from_str(codec.text), !.pc = "parsed"]
    /\ UNCHANGED <<store, pc, line, unread, prompts, signals, emitted, calls,
                   accepted, written>>

\* an Entry is built and nothing else happens to the history
InitCodec ==
    /\ lineparser = <<>>
    /\ InitRest
    /\ codec \in {[NoCodec EXCEPT !.pc = "entry", !.entry = e] : e \in CodecEntries}

NextCodec == entry_str \/ entry_from_str

SpecCodec == InitCodec /\ [][NextCodec]_vars

\* a start-up with a file of an earlier session
Init == lineparser \in BoundedSeq(StoreLines, MaxFile) /\ InitRest /\ codec = NoCodec

\* the steps explored leave room for `adds` further add_url calls, a clear,
\* an async_read call, a prompt
Room(adds) == calls.add_url + adds <= MaxAdds
ClearRoom == calls.clear < MaxClears
ReadRoom == calls.async_read < MaxReads
PromptRoom == prompts < MaxPrompts

Next ==
    \/ ReadRoom /\ async_read
    \/ async_read_resume
    \/ \E args \in AddArgs :
           Room(1) /\ add_url(args[1], args[2], args[3])
    \/ \E args \in TabArgs :
           Room(2) /\ add_from_tab(args[1], args[2], args[3])
    \/ save
    \/ \E force \in BOOLEAN :
           (IF force THEN ClearRoom ELSE PromptRoom) /\ clear(force)
    \/ ClearRoom /\ confirm_yes
    \/ confirm_no

Spec == Init /\ [][Next]_vars

\* what a step of async_read_resume does to the generator: it leaves the
\* loop, or it suspends again holding the next line of the file
resumed ==
    /\ pc = "yield"
    /\ UNCHANGED <<lineparser, saved_count, prompts, calls>>
    /\ \/ pc' = "finished" /\ line' = <<>> /\ unread' = <<>>
       \/ unread /= <<>> /\ pc' = "yield" /\ line' = Head(unread)
              /\ unread' = Tail(unread)

\* all operations, with an event loop that resumes a suspended generator
\* in the end: the steps of async_read_resume are the steps that satisfy
\* `resumed`, and the fairness condition is stated on those
SpecLive == Init /\ [][Next]_vars /\ WF_<<pc, line, unread>>(resumed)

\* a start-up with any file of at most MaxLog lines, explored with one
\* URL browsed
InitLoad == lineparser \in BoundedSeq(LogLines, MaxLog) /\ InitRest /\ codec = NoCodec

NextLoad ==
    \/ ReadRoom /\ async_read
    \/ async_read_resume
    \/ calls.add_url < LoadAdds /\ add_url(UrlA, <<"t">>, FALSE)
    \/ save
    \/ ClearRoom /\ clear(TRUE)

SpecLoad == InitLoad /\ [][NextLoad]_vars

\* a start-up with a file of an earlier session, explored with one URL
\* browsed and with saves and clears in which the line parser fails
InitIo == lineparser \in BoundedSeq(StoreLines, MaxFile) /\ InitRest /\ codec = NoCodec

\* the steps explored leave room for a further failure of the line parser
FailRoom == emitted.save_error + emitted.clear_error < MaxFailures

NextIo ==
    \/ ReadRoom /\ async_read
    \/ async_read_resume
    \/ Room(1) /\ add_url(UrlA, <<"t">>, FALSE)
    \/ save
    \/ FailRoom /\ save_raises
    \/ \E force \in BOOLEAN :
           (IF force THEN ClearRoom ELSE PromptRoom) /\ clear(force)
    \/ FailRoom /\ clear_raises
    \/ ClearRoom /\ confirm_yes
    \/ FailRoom /\ confirm_yes_raises
    \/ confirm_no

SpecIo == InitIo /\ [][NextIo]_vars

\* ================================================================ claims
Range(seq) == {seq[i] : i \in 1..Len(seq)}

\* the rows of the table
Rows == {index[u] : u \in DOMAIN index}

\* the textual form of each entry of a list
Lines(entries) == [i \in 1..Len(entries) |-> EntryStr(entries[i])]

\* C1: an entry add_url accepted before the initial read was done (and not
\* cleared since) is in neither the table nor the session list while the
\* read is not done; once it is done, the session list holds each such
\* entry exactly once, in the order of the add_url calls.
C1_BufferedUntilDone ==
    /\ ~initial_read_done =>
           \A i \in 1..Len(accepted) :
               /\ Row(accepted[i]) \notin Rows
               /\ accepted[i] \notin Range(new_history)
    /\ initial_read_done =>
           SelectSeq(new_history, LAMBDA e : e \in Range(accepted)) = accepted

\* two entries were buffered during the read and the read is done
C1_Witness ==
    /\ initial_read_done
    /\ Len(accepted) = 2
    /\ calls.clear = 0

\* C2: the lines appended to the file since the last clear (or the start)
\* are the textual forms of the first _saved_count entries of the session
\* list, in order, and they are the tail of the file.
C2_WrittenIsSavedPrefix ==
    /\ saved_count <= Len(new_history)
    /\ written = Lines(SubSeq(new_history, 1, saved_count))
    /\ Len(written) <= Len(lineparser)
    /\ written = SubSeq(lineparser, Len(lineparser) - Len(written) + 1,
                        Len(lineparser))

\* a save wrote an entry, and a later entry is not written yet
C2_Witness ==
    /\ saved_count >= 1
    /\ Len(new_history) > saved_count
    /\ written /= <<>>

\* a save would change nothing in this state
SaveIdle ==
    /\ lineparser \o NewData(new_history, saved_count) = lineparser
    /\ SavedAfterSave(new_history, saved_count) = saved_count

\* C3: right after a save, a second save appends no line and leaves the
\* file, the session list and _saved_count as they are.
C3_SecondSaveIdle == [][save => SaveIdle']_vars

\* a save has written two entries
C3_Witness ==
    /\ Len(written) = 2
    /\ saved_count = 2

\* the line is one the initial read commits
Committed(l) == rstrip(l) /= <<>> /\ ~FromStrFails(rstrip(l))

\* the key of the row a committed line is stored under
KeyOf(l) == url_str(from_str(rstrip(l)).url)

\* the rows a read of the whole file leaves in an empty table: under each
\* key of a committed line, the row of the last such line
LastRows(file) ==
    [u \in {KeyOf(file[i]) : i \in {j \in 1..Len(file) : Committed(file[j])}} |->
        LET last == CHOOSE i \in 1..Len(file) :
                        /\ Committed(file[i]) /\ KeyOf(file[i]) = u
                        /\ \A j \in (i + 1)..Len(file) :
                               ~(Committed(file[j]) /\ KeyOf(file[j]) = u)
            e == from_str(rstrip(file[last]))
        IN [url |-> u, title |-> e.title, atime |-> e.atime,
            redirect |-> e.redirect]]

\* C4: when the initial read is done and nothing was added (nor cleared),
\* the table holds exactly one row per URL of a valid line of the file,
\* carrying title, atime and redirect flag of the last valid line with that
\* URL.
C4_LastLineWins ==
    (initial_read_done /\ calls.add_url = 0 /\ calls.clear = 0)
        => index = LastRows(lineparser)

\* a file with two lines for one URL was read
C4_Witness ==
    /\ initial_read_done
    /\ calls.add_url = 0 /\ calls.clear = 0
    /\ lineparser = <<LineA1, LineBr, LineA2>>

\* the store holds nothing
Cleared ==
    /\ get_recent = <<>>
    /\ Cardinality(DOMAIN index) = 0
    /\ temp_history = <<>>
    /\ new_history = <<>>
    /\ saved_count = 0
    /\ lineparser \o NewData(new_history, saved_count) = lineparser

\* C5: in the state right after a clear that proceeds, in whatever phase,
\* get_recent returns nothing, the table, the buffer and the session list
\* are empty, _saved_count is 0 and a save appends nothing.
C5_ClearResets == [][calls'.clear = calls.clear + 1 => Cleared']_vars

\* a clear ran after the read had moved buffered entries to the session
\* list, and nothing was added since
C5_Witness ==
    /\ calls.clear = 1
    /\ signals.async_read_done /= NoSnapshot
    /\ signals.async_read_done.temp_history /= <<>>
    /\ signals.cleared /= NoSnapshot
    /\ new_history = <<>>

\* the list add_url appends to in the current phase
Recorded == IF initial_read_done THEN new_history ELSE temp_history

\* url, title and redirect flag of each entry of a list
Visits(entries) ==
    [i \in 1..Len(entries) |->
        [url |-> entries[i].url, title |-> entries[i].title,
         redirect |-> entries[i].redirect]]

\* the entries C6 expects of add_from_tab(a, b, t)
Pair(a, b, t) ==
    IF a = b
    THEN <<[url |-> a, title |-> t, redirect |-> FALSE]>>
    ELSE <<[url |-> b, title |-> t, redirect |-> TRUE],
           [url |-> a, title |-> t, redirect |-> FALSE]>>

\* the valid URLs among the arguments that do not use the data scheme
PlainUrls == {u \in AddUrls : isValid(u) /\ scheme(u) /= "data"}

\* C6 as stated: add_from_tab(a, b, t) with a non-empty a records an entry
\* for b with redirect set and then one for a without, both titled t, when
\* a differs from b, and one entry for a when they are equal.
C6_AnyUrls ==
    [][\A args \in TabArgs :
          (~isEmpty(args[1]) /\ add_from_tab(args[1], args[2], args[3]))
              => Visits(Recorded') =
                     Visits(Recorded) \o Pair(args[1], args[2], args[3])]_vars

\* C6 as amended: the same for valid a and b that do not use the data
\* scheme.
C6_ValidUrls ==
    [][calls'.add_url > calls.add_url =>
          \A a \in PlainUrls, b \in PlainUrls, t \in Titles :
              add_from_tab(a, b, t)
                  => Visits(Recorded') = Visits(Recorded) \o Pair(a, b, t)]_vars

\* the buffer holds a redirect entry for one URL followed by a plain
\* entry for another, with one title
C6_Witness ==
    /\ Len(temp_history) = 2
    /\ temp_history[1].redirect /\ ~temp_history[2].redirect
    /\ temp_history[1].url = UrlPw /\ temp_history[2].url = UrlA
    /\ temp_history[1].title = <<"t">> /\ temp_history[2].title = <<"t">>

\* the listeners of a notification found the buffer drained
SawDrained(snapshot) ==
    snapshot /= NoSnapshot =>
        /\ snapshot.temp_history = <<>>
        /\ calls.clear = 0 =>
               \A e \in Range(accepted) :
                   /\ e \in Range(snapshot.new_history)
                   /\ url_str(e.url) \in DOMAIN snapshot.index

\* C7: when async_read_done is emitted and when add_saveable is called,
\* the buffer is empty and every buffered entry is in the table and in the
\* session list.
C7_DrainedBeforeSignals ==
    /\ SawDrained(signals.async_read_done)
    /\ SawDrained(signals.add_saveable)

\* C8: only the first async_read call reads the file: a later call changes
\* nothing, and async_read_done is emitted and add_saveable called once,
\* when the read is done, and never again.
C8_ReadOnce ==
    /\ [](/\ emitted.async_read_done = (IF initial_read_done THEN 1 ELSE 0)
          /\ emitted.add_saveable = (IF initial_read_done THEN 1 ELSE 0)
          /\ initial_read_done => initial_read_started)
    /\ [][(calls'.async_read = calls.async_read + 1 /\ initial_read_started)
             => UNCHANGED <<store, pc, line, unread, signals, emitted>>]_vars
    /\ [][(initial_read_started => initial_read_started')
             /\ (initial_read_done => initial_read_done')]_vars

\* async_read was called a second time after the read was done and the
\* history cleared
C8_Witness ==
    /\ calls.async_read = 2
    /\ initial_read_done
    /\ calls.clear = 1
    /\ emitted.async_read_done = 1

\* C9: while the initial read is not done, the session list is empty and
\* a save appends nothing, so no entry added in that phase is written
\* before the read is done.
C9_NoEarlyWrite ==
    /\ [](~initial_read_done => (new_history = <<>> /\ written = <<>>))
    /\ [][(save /\ ~initial_read_done) => lineparser' = lineparser]_vars

\* entries buffered during the read were written by a save after it
C9_Witness ==
    /\ initial_read_done
    /\ Len(accepted) = 2
    /\ written = Lines(accepted)

\* the lines of LogLines that are valid, with the URL each is stored under,
\* and those that are malformed
GoodLines == {LineA1, LineA2, LineBr}
GoodUrl(l) == IF l = LineBr THEN UrlB ELSE UrlA
BadLines == {LineFields, LineBadUrl, LineBadFlags, LineBadAtime}

\* how many lines of the file the loop of async_read is through with
Through ==
    IF ~initial_read_started THEN 0
    ELSE IF pc = "yield" THEN Len(lineparser) - Len(unread) - 1
    ELSE Len(lineparser)

\* the URLs of the valid lines the loop of async_read is through with
GoodUrlsThrough ==
    {GoodUrl(lineparser[i]) : i \in {j \in 1..Through : lineparser[j] \in GoodLines}}

\* C10: as long as the history is not cleared, a malformed line is skipped
\* with a warning and the read goes on: the table holds the URL of every
\* valid line the loop is through with (and no other URL until an added
\* entry is stored), one warning is logged per malformed line, the rest of
\* the file is still to come, and the read is done when the file is
\* exhausted.
C10_MalformedSkipped ==
    (calls.clear = 0 /\ initial_read_started) =>
        /\ Through >= 0
        /\ GoodUrlsThrough \subseteq DOMAIN index
        /\ (calls.add_url = 0 \/ ~initial_read_done) => DOMAIN index = GoodUrlsThrough
        /\ emitted.init_warning =
               Cardinality({j \in 1..Through : lineparser[j] \in BadLines})
        /\ pc = "yield" =>
               <<line>> \o unread = SubSeq(lineparser, Through + 1, Len(lineparser))
        /\ pc \in {"yield", "finished"}
        /\ initial_read_done <=> pc = "finished"

\* a file with a malformed line between two valid lines was read
C10_Witness ==
    /\ initial_read_done
    /\ calls.add_url = 0 /\ calls.clear = 0
    /\ lineparser = <<LineA1, LineBadFlags, LineBr>>
    /\ Cardinality(DOMAIN index) = 2
    /\ emitted.init_warning = 1

\* C11: add_url with an empty or otherwise invalid URL returns after
\* logging a warning and leaves the file, the table, the buffer, the
\* session list and _saved_count as they are, whether the initial read
\* has not started, is suspended or is done.
C11_InvalidAddIgnored ==
    [][\A args \in AddArgs :
          (~isValid(args[1]) /\ add_url(args[1], args[2], args[3]))
              => /\ UNCHANGED <<store, pc, line, unread, signals, accepted, written>>
                 /\ emitted'.misc_warning = emitted.misc_warning + 1]_vars

\* add_url was called with an invalid URL twice, the later time while the
\* read was suspended with a row in the table
C11_Witness ==
    /\ emitted.misc_warning = 2
    /\ pc = "yield"
    /\ Cardinality(DOMAIN index) = 1
    /\ temp_history = <<>>

\* the entries of a list whose URL uses the data scheme
DataEntries(entries) == {e \in Range(entries) : scheme(e.url) = "data"}

\* the lines of a file whose URL field uses the data scheme
DataLines(file) ==
    {l \in Range(file) : Len(split(l)) >= 2 /\ scheme(QUrl(split(l)[2])) = "data"}

\* the keys of the table that use the data scheme
DataKeys(table) == {u \in DOMAIN table : scheme(u) = "data"}

\* C12 as stated: whatever add_url and add_from_tab calls were made, no
\* entry with a data: URL is in the buffer, the session list, the table
\* or the file.
C12_NoDataRecorded ==
    /\ DataEntries(temp_history) = {}
    /\ DataEntries(new_history) = {}
    /\ DataKeys(index) = {}
    /\ DataLines(lineparser) = {}

\* C12 as amended: add_from_tab records nothing when the displayed or the
\* requested URL uses the data: scheme (a step in which add_url is called
\* is not a step of such an add_from_tab call), and no add_from_tab call
\* adds an entry with a data: URL; add_url does not look at the scheme and
\* records a data: URL like any other valid URL.
C12_DataIgnoredByTab ==
    [][calls'.add_url /= calls.add_url =>
          /\ \A args \in TabArgs :
                 add_from_tab(args[1], args[2], args[3])
                     => /\ DataEntries(temp_history') \subseteq DataEntries(temp_history)
                        /\ DataEntries(new_history') \subseteq DataEntries(new_history)
                        /\ DataKeys(index') \subseteq DataKeys(index)
                        /\ scheme(args[1]) /= "data"
                        /\ scheme(args[2]) /= "data"
          /\ \A args \in AddArgs :
                 (scheme(args[1]) = "data" /\ add_url(args[1], args[2], args[3]))
                     => Visits(Recorded') =
                            Visits(Recorded) \o <<[url |-> args[1], title |-> args[2],
                                                   redirect |-> args[3]]>>]_vars

\* add_url was called with a data: URL after the read was done, and a save
\* wrote the entry
C12_Witness ==
    /\ DataEntries(new_history) /= {}
    /\ DataKeys(index) /= {}
    /\ DataLines(written) /= {}
    /\ temp_history = <<>>

\* C13: in every phase of the initial read, get_recent returns what the
\* line parser's get_recent returns followed by the textual form of each
\* entry of the session list, in list order, and nothing else: while the
\* read is not done that is the line parser's part alone, whatever the
\* buffer holds.
C13_RecentIsLogThenSession ==
    /\ Len(get_recent) = Len(lineparser_get_recent(lineparser)) + Len(new_history)
    /\ SubSeq(get_recent, 1, Len(lineparser_get_recent(lineparser)))
           = lineparser_get_recent(lineparser)
    /\ \A i \in 1..Len(new_history) :
           get_recent[Len(lineparser_get_recent(lineparser)) + i]
               = EntryStr(new_history[i])
    /\ ~initial_read_done => get_recent = lineparser_get_recent(lineparser)

\* the read is suspended with two entries in the buffer and a file of two
\* lines
C13_Witness ==
    /\ pc = "yield"
    /\ Len(temp_history) = 2
    /\ Len(lineparser) = 2
    /\ Len(get_recent) = 2

\* C14: clear(force=False) only asks: the request itself and a dismissed
\* prompt change nothing in the store and deliver no notification; the
\* history is cleared, and cleared emitted, in the step in which the prompt
\* is affirmed (or clear is forced) and in no other, and that step clears
\* the store as it is then, with whatever was added since the request.
C14_ClearWaitsForYes ==
    /\ [][clear(FALSE) =>
             /\ UNCHANGED <<store, pc, line, unread, signals, emitted, accepted, written>>
             /\ prompts' = prompts + 1]_vars
    /\ [][confirm_no =>
             UNCHANGED <<store, pc, line, unread, signals, emitted, accepted, written>>]_vars
    /\ [][confirm_yes => (Cleared' /\ emitted'.cleared = emitted.cleared + 1)]_vars
    /\ [][(emitted'.cleared /= emitted.cleared \/ calls'.clear /= calls.clear)
             => (confirm_yes \/ clear(TRUE))]_vars

\* a prompt is unanswered while two entries added are in the session
\* list, one of them written, and nothing is cleared
C14_Witness ==
    /\ prompts = 1
    /\ calls.clear = 0
    /\ emitted.cleared = 0
    /\ Len(new_history) = 2
    /\ Len(written) = 1

\* what the listeners of cleared found is a store with everything reset
SawCleared(snapshot) ==
    /\ snapshot.lineparser = <<>>
    /\ DOMAIN snapshot.index = {}
    /\ snapshot.temp_history = <<>>
    /\ snapshot.new_history = <<>>
    /\ snapshot.saved_count = 0

C16_FailureChangesNothing ==
    /\ [][(emitted'.save_error /= emitted.save_error
              \/ emitted'.clear_error /= emitted.clear_error)
             => /\ UNCHANGED <<store, pc, line, unread, signals, calls, accepted,
                               written>>
                /\ emitted'.cleared = emitted.cleared]_vars
    /\ [][save_raises => emitted'.save_error = emitted.save_error + 1]_vars
    /\ [][(clear_raises \/ confirm_yes_raises)
             => emitted'.clear_error = emitted.clear_error + 1]_vars
    /\ [][save => written' = Lines(new_history')]_vars
    /\ [](written = Lines(SubSeq(new_history, 1, saved_count)))

\* a save and a clear failed, and a save since wrote the two entries of the
\* session list
C16_Witness ==
    /\ emitted.save_error = 1
    /\ emitted.clear_error = 1
    /\ emitted.cleared = 0
    /\ Len(new_history) = 2
    /\ saved_count = 2
    /\ written = Lines(new_history)

\* the title without its leading whitespace
LStrip(title) == SubSeq(title, SkipSpace(title, 1), Len(title))

C18_LoadCompletes ==
    /\ initial_read_started ~> initial_read_done
    /\ [][(~initial_read_done /\ initial_read_done')
             => \A e \in Range(temp_history) :
                    /\ e \in Range(new_history')
                    /\ url_str(e.url) \in DOMAIN index']_vars
    /\ [](initial_read_done => temp_history = <<>>)
    /\ [][initial_read_done => initial_read_done']_vars
    /\ [][<<resumed>>_<<pc, line, unread>> <=> async_read_resume]_vars

\* the read was done with an entry in the buffer that was added after a
\* clear
C18_Witness ==
    /\ initial_read_done
    /\ calls.clear = 1
    /\ Len(accepted) = 1
    /\ signals.async_read_done /= NoSnapshot
    /\ signals.async_read_done.temp_history = accepted
    /\ Len(lineparser) = 0

\* the last entry of a list that is stored under the key u
LastFor(u, entries) ==
    entries[CHOOSE i \in 1..Len(entries) :
                /\ url_str(entries[i].url) = u
                /\ \A j \in (i + 1)..Len(entries) : url_str(entries[j].url) /= u]

\* C19: once the initial read is done, the row of a URL that add_url
\* buffered during the read is the one of the (last) added entry, whatever
\* lines the file holds for that URL before or after the place the read was
\* suspended at: no line of the file replaces it.
C19_LiveAddWins ==
    initial_read_done =>
        \A i \in 1..Len(accepted) :
            /\ url_str(accepted[i].url) \in DOMAIN index
            /\ index[url_str(accepted[i].url)]
                   = Row(LastFor(url_str(accepted[i].url), new_history))

\* a file with a line for the URL before and one after another line was
\* read, with the URL added during the read: the row is the added one
C19_Witness ==
    /\ initial_read_done
    /\ lineparser = <<LineA1, LineBr, LineA2>>
    /\ Len(accepted) = 1
    /\ accepted[1].url = UrlA
    /\ index[UrlA] = Row(accepted[1])
    /\ UrlB \in DOMAIN index

\* C20: save never appends the line of an entry whose redirect flag is
\* set: no line written since the last clear carries the flag, and every
\* entry of the session list that was written has it unset.
C20_RedirectNotWritten ==
    /\ \A i \in 1..Len(written) : ~from_str(written[i]).redirect
    /\ \A i \in 1..saved_count : ~new_history[i].redirect

\* C21: _saved_count is never negative and never beyond the end of the
\* session list, whatever add_url calls, steps of the read, saves (failing
\* ones included) and clears were made.
C21_SavedCountInList ==
    /\ 0 <= saved_count
    /\ saved_count <= Len(new_history)

\* a save wrote the first entry of the session list, a later save failed
\* and the second entry is not written
C21_Witness ==
    /\ emitted.save_error = 1
    /\ saved_count = 1
    /\ Len(new_history) = 2
    /\ Len(written) = 1

\* the keys of the rows a read of the file as it is now would insert
LogKeys == {KeyOf(lineparser[i]) : i \in {j \in 1..Len(lineparser) : Committed(lineparser[j])}}

\* the keys of the entries of the session list
SessionKeys == {url_str(new_history[i].url) : i \in 1..Len(new_history)}

\* C22: once the history was cleared, be it while the read was suspended,
\* the table holds no row of a line the file held before the clear: every
\* key of the table is the URL of a line of the file as it is now or of an
\* entry of the session list.
C22_ClearStaysEffective ==
    calls.clear >= 1 => DOMAIN index \subseteq (LogKeys \cup SessionKeys)

\* how often a line is in a list of lines
Count(l, lines) == Cardinality({k \in 1..Len(lines) : lines[k] = l})

\* C23: get_recent lists each entry of the session list exactly once (as
\* often as the list itself holds an entry of that text), also when a save
\* has appended the entries to the file whose last lines get_recent
\* returns.
C23_RecentListsOnce ==
    \A i \in 1..Len(new_history) :
        Count(EntryStr(new_history[i]), get_recent)
            = Count(EntryStr(new_history[i]), Lines(new_history))

\* the phase of the initial read: 0 not started, 1 under way, 2 done
Phase == IF initial_read_done THEN 2 ELSE IF initial_read_started THEN 1 ELSE 0

\* C24: the phase of the initial read only moves forward and only async_read
\* and the resumption of its generator move it: clear, save and add_url
\* leave it alone.  So, before and after a clear alike, an add_url call
\* while the read is not done only appends to the buffer, and one after it
\* is done appends to the session list and puts its row into the table.
C24_PhaseOnlyForward ==
    /\ [][Phase' >= Phase]_vars
    /\ [][Phase' /= Phase => (async_read \/ async_read_resume)]_vars
    /\ [](initial_read_done => initial_read_started)
    /\ [][calls'.add_url /= calls.add_url =>
             LET added == (calls'.add_url - calls.add_url)
                              - (emitted'.misc_warning - emitted.misc_warning)
             IN IF initial_read_done
                THEN /\ temp_history' = temp_history
                     /\ Len(new_history') = Len(new_history) + added
                     /\ SubSeq(new_history', 1, Len(new_history)) = new_history
                     /\ \A e \in Range(new_history') :
                            url_str(e.url) \in DOMAIN index'
                ELSE /\ index' = index
                     /\ new_history' = new_history
                     /\ Len(temp_history') = Len(temp_history) + added
                     /\ SubSeq(temp_history', 1, Len(temp_history)) = temp_history]_vars

\* the history was cleared and the read is suspended: the two entries
\* added since the clear are in the buffer and nowhere else
C24_Witness ==
    /\ calls.clear = 1
    /\ pc = "yield"
    /\ ~initial_read_done
    /\ Len(temp_history) = 2
    /\ new_history = <<>>
    /\ DOMAIN index = {}

====
